---------------------------- MODULE Spec2Model ----------------------------
(***************************************************************************)
(* Error Oracle (VS Code extension): the rule table, the explanation       *)
(* resolver explainError, the diagnostic locator getDiagnosticAtPosition,  *)
(* the command handler 'error-oracle.explainError' with its dialog         *)
(* continuation, and the hover provider.                                   *)
(*                                                                         *)
(* Strings are TLC strings; Len, SubSeq and \o act on them character by    *)
(* character, so regular-expression matching, the fallback template, the   *)
(* markdown conversion and the percent-encoding are computed on the text.  *)
(* String indices are 0-based where the source's are (lastIndex, match     *)
(* positions); Char(s, i) reads the character at 0-based index i.          *)
(***************************************************************************)
EXTENDS Integers, Sequences, FiniteSets, TLC

VARIABLES
    lastIndex,      \* lastIndex[k]: the lastIndex property of RULES[k].pattern
    query,          \* the (message, languageId) pair of a direct explainError call
    answer,         \* what that call returned, <<>> before the call
    docLanguageId,  \* document.languageId of the document in the editor
    diagnostics,    \* vscode.languages.getDiagnostics(document.uri)
    queryPos,       \* the position of a direct getDiagnosticAtPosition call
    pending,        \* command invocations suspended at the modal dialog
    last,           \* the most recently completed handler invocation
    found           \* what a direct getDiagnosticAtPosition call returned

vars == <<lastIndex, query, answer, docLanguageId, diagnostics, queryPos, pending,
          last, found>>

---------------------------------------------------------------------------
(* Bounds of the model *)

\* A message of the resolver's input space is at most MaxParts fragments long.
MaxParts == 3
\* The host reports at most MaxDiags diagnostics for the document.
MaxDiags == 2
\* Positions are 0 .. MaxPos.
MaxPos == 2
\* At most MaxPending modal dialogs wait for the user's choice at once.
MaxPending == 2

---------------------------------------------------------------------------
(* Text helpers *)

\* The character of s at 0-based index i, as a one-character string.
Char(s, i) == SubSeq(s, i + 1, i + 1)

LowerCaseLetters == "abcdefghijklmnopqrstuvwxyz"
UpperCaseLetters == "ABCDEFGHIJKLMNOPQRSTUVWXYZ"

\* toUpperCase on the ASCII letters.
UpperCaseOf ==
    [c \in {Char(LowerCaseLetters, k) : k \in 0..25} |->
        Char(UpperCaseLetters, CHOOSE k \in 0..25 : Char(LowerCaseLetters, k) = c)]

\* Canonicalize of the RegExp semantics (no unicode flag): with ignoreCase a
\* character is compared by its upper-case form, otherwise as it is.
Canonicalize(c, ignoreCase) ==
    IF ignoreCase /\ c \in DOMAIN UpperCaseOf THEN UpperCaseOf[c] ELSE c

\* '.' matches any character except a line terminator.
IsLineTerminator(c) == c \in {"\n", "\r"}

\* Array.prototype.join('\n')
RECURSIVE JoinLines(_)
JoinLines(lines) ==
    IF Len(lines) = 0 THEN ""
    ELSE IF Len(lines) = 1 THEN lines[1]
    ELSE lines[1] \o "\n" \o JoinLines(Tail(lines))

---------------------------------------------------------------------------
(* Regular expressions: a pattern is a sequence of parts, each a literal   *)
(* text or '.+' (capture groups do not change what matches).               *)

Lit(text) == [kind |-> "literal", text |-> text]
DotPlus == [kind |-> ".+", text |-> ""]

\* The literal lit occurs in s at 0-based index i.
LiteralAt(lit, s, i, ignoreCase) ==
    /\ i + Len(lit) <= Len(s)
    /\ \A k \in 0..(Len(lit) - 1) :
          Canonicalize(Char(s, i + k), ignoreCase) = Canonicalize(Char(lit, k), ignoreCase)

\* The least and the greatest of a non-empty set of indices.
Least(S) == CHOOSE x \in S : \A y \in S : x <= y
Greatest(S) == CHOOSE x \in S : \A y \in S : x >= y

\* How many characters from index i on '.' can consume: up to the next line
\* terminator, or to the end of s.
RunUpTo(s, i, stops) == (IF stops = {} THEN Len(s) ELSE Least(stops)) - i
DotRun(s, i) ==
    IF i >= Len(s) THEN 0
    ELSE RunUpTo(s, i, {j \in i..(Len(s) - 1) : IsLineTerminator(Char(s, j))})

\* The backtracking matcher: the end index of the match of parts[k..] at index i
\* of s, or -1. '.+' is greedy: of the runs of 1 to n characters after which the
\* rest of the pattern matches, it takes the longest.
RECURSIVE MatchParts(_, _, _, _, _)
RECURSIVE TryDotPlus(_, _, _, _, _, _)
RECURSIVE LongestRun(_, _, _, _, _, _)
MatchParts(parts, k, s, i, ignoreCase) ==
    IF k > Len(parts) THEN i
    ELSE IF parts[k].kind = "literal"
         THEN IF LiteralAt(parts[k].text, s, i, ignoreCase)
              THEN MatchParts(parts, k + 1, s, i + Len(parts[k].text), ignoreCase)
              ELSE -1
         ELSE TryDotPlus(parts, k, s, i, DotRun(s, i), ignoreCase)
LongestRun(parts, k, s, i, runs, ignoreCase) ==
    IF runs = {} THEN -1
    ELSE MatchParts(parts, k + 1, s, i + Greatest(runs), ignoreCase)
TryDotPlus(parts, k, s, i, n, ignoreCase) ==
    LongestRun(parts, k, s, i,
               {m \in 1..n : MatchParts(parts, k + 1, s, i + m, ignoreCase) # -1},
               ignoreCase)

\* The end index of the first match starting at index i or later, or -1.
FirstStart(R, s, starts) ==
    IF starts = {} THEN -1
    ELSE MatchParts(R.parts, 1, s, Least(starts), R.ignoreCase)
SearchFrom(R, s, i) ==
    FirstStart(R, s, {j \in i..Len(s) : MatchParts(R.parts, 1, s, j, R.ignoreCase) # -1})

\* RegExp.prototype.test: without the global flag the search starts at 0 and
\* lastIndex is left alone; with it the search starts at lastIndex, which is
\* then set to the end e of the match, or to 0 when nothing matches.
TestResult(R, e, li) ==
    [matched   |-> e # -1,
     lastIndex |-> IF R.global THEN (IF e # -1 THEN e ELSE 0) ELSE li]
RegExpTest(R, s, li) == TestResult(R, SearchFrom(R, s, IF R.global THEN li ELSE 0), li)

\* A regular-expression literal /parts/flags. The mutant is the literal written
\* with the g flag added.
HasFlag(flags, f) == \E k \in 0..(Len(flags) - 1) : Char(flags, k) = f
RegExpWithGlobalFlag(parts, flags) ==
    [parts |-> parts, ignoreCase |-> HasFlag(flags, "i"), global |-> TRUE]

RegExp(parts, flags) ==
    [parts |-> parts, ignoreCase |-> HasFlag(flags, "i"), global |-> HasFlag(flags, "g")]

\* The pattern matches somewhere inside s (a fresh search from index 0).
Matches(R, s) == SearchFrom(R, s, 0) # -1

---------------------------------------------------------------------------
(* The rule table *)

RULES ==
    <<
      [language |-> "python",
       pattern |-> RegExp(<<Lit("not defined")>>, "i"),
       explanation |-> "This Python error means you're using a name (variable or function) that hasn't been defined in this scope.\n\nCommon fixes:\n- Check for typos in the name\n- Make sure you assign to the variable before using it\n- Ensure you've imported the function/module before calling it"],
      [language |-> "python",
       pattern |-> RegExp(<<Lit("TypeError: "), DotPlus>>, ""),
       explanation |-> "Python TypeError means an operation or function was used with the wrong type.\n\nCommon causes:\n- Adding or concatenating incompatible types (e.g. string + int)\n- Passing the wrong type of argument into a function"],
      [language |-> "typescript",
       pattern |-> RegExp(<<Lit("Cannot find name '"), DotPlus, Lit("'")>>, ""),
       explanation |-> "TypeScript \"Cannot find name\" means the identifier is not in scope.\n\nCommon fixes:\n- Import it from the correct module\n- Declare the variable before using it\n- Check for typos in the name"],
      [language |-> "typescript",
       pattern |-> RegExp(<<Lit("Property '"), DotPlus, Lit("' does not exist on type")>>, ""),
       explanation |-> "This error means you're trying to use a property that TypeScript doesn't think exists on that type.\n\nCheck:\n- The type/interface definition\n- Spelling of the property\n- Whether you need to extend the type or add a type annotation"],
      [language |-> "javascript",
       pattern |-> RegExp(<<Lit("ReferenceError: "), DotPlus, Lit(" is not defined")>>, ""),
       explanation |-> "JavaScript ReferenceError means you're using a variable that hasn't been declared in this scope.\n\nDeclare the variable first, or make sure the script that defines it runs before this code."]
    >>

\* Every pattern is created with lastIndex 0.
InitialLastIndex == [k \in 1..Len(RULES) |-> 0]

---------------------------------------------------------------------------
(* The explanation resolver *)

\* rule.language === languageId, with the mutant that folds case
StrictEqualsIgnoringCase(a, b) ==
    /\ Len(a) = Len(b)
    /\ \A k \in 0..(Len(a) - 1) : Canonicalize(Char(a, k), TRUE) = Canonicalize(Char(b, k), TRUE)

StrictEquals(a, b) == a = b

\* The fallback, with the mutant that cuts the echoed message
FallbackTruncated(message) ==
    JoinLines(<<
        "Error Oracle doesn't have a specific explanation for this message yet.",
        "",
        "Error text:",
        "> " \o (IF Len(message) > 20 THEN SubSeq(message, 1, 20) ELSE message),
        "",
        "Things you can try:",
        "- Read the error carefully and note which variable/type it's about",
        "- Check the line above as well (errors often come from there)",
        "- Search the exact error message online or in your language docs"
    >>)

Fallback(message) ==
    JoinLines(<<
        "Error Oracle doesn't have a specific explanation for this message yet.",
        "",
        "Error text:",
        "> " \o message,
        "",
        "Things you can try:",
        "- Read the error carefully and note which variable/type it's about",
        "- Check the line above as well (errors often come from there)",
        "- Search the exact error message online or in your language docs"
    >>)

\* The loop over RULES from rule k on. The pattern is tested only when the
\* language is equal (&& short-circuits); li carries every pattern's lastIndex
\* and t is what the test of rule k's pattern gave.
RECURSIVE ScanRules(_, _, _, _)
RECURSIVE AfterTest(_, _, _, _, _)
ScanRules(k, message, languageId, li) ==
    IF k > Len(RULES) THEN [text |-> Fallback(message), lastIndex |-> li]
    ELSE IF StrictEquals(RULES[k].language, languageId)
         THEN AfterTest(k, message, languageId, li,
                        RegExpTest(RULES[k].pattern, message, li[k]))
         ELSE ScanRules(k + 1, message, languageId, li)
AfterTest(k, message, languageId, li, t) ==
    IF t.matched
    THEN [text |-> RULES[k].explanation, lastIndex |-> [li EXCEPT ![k] = t.lastIndex]]
    ELSE ScanRules(k + 1, message, languageId, [li EXCEPT ![k] = t.lastIndex])

\* The mutant that keeps scanning and returns the last matching rule.
RECURSIVE ScanRulesLast(_, _, _, _, _)
RECURSIVE AfterTestLast(_, _, _, _, _, _)
ScanRulesLast(k, message, languageId, li, best) ==
    IF k > Len(RULES) THEN [text |-> best, lastIndex |-> li]
    ELSE IF StrictEquals(RULES[k].language, languageId)
         THEN AfterTestLast(k, message, languageId, li, best,
                            RegExpTest(RULES[k].pattern, message, li[k]))
         ELSE ScanRulesLast(k + 1, message, languageId, li, best)
AfterTestLast(k, message, languageId, li, best, t) ==
    ScanRulesLast(k + 1, message, languageId, [li EXCEPT ![k] = t.lastIndex],
                  IF t.matched THEN RULES[k].explanation ELSE best)
explainErrorLastMatch(message, languageId, li) ==
    ScanRulesLast(1, message, languageId, li, Fallback(message))

\* explainError(message, languageId): the text returned and the lastIndex of
\* every pattern after the call.
explainError(message, languageId, li) == ScanRules(1, message, languageId, li)

---------------------------------------------------------------------------
(* Diagnostics and the locator *)

\* vscode.DiagnosticSeverity
Severities == {"Error", "Warning", "Information", "Hint"}

Positions == 0..MaxPos

\* The diagnostics the language tooling may report for the document. Their
\* ranges overlap at position 1; the first message is one a python rule
\* matches, the second is one no rule matches.
DiagnosticPool ==
    { [message |-> "NameError: name 'x' is not defined", severity |-> "Error",
       range |-> [start |-> 0, end |-> 1]],
      [message |-> "SyntaxError: invalid syntax", severity |-> "Warning",
       range |-> [start |-> 1, end |-> 2]],
      [message |-> "SyntaxError: invalid syntax", severity |-> "Hint",
       range |-> [start |-> 0, end |-> 0]] }

\* What getDiagnostics may return for the document: at most MaxDiags of them,
\* each reported once.
DiagnosticLists ==
    UNION {{ds \in [1..n -> DiagnosticPool] :
               \A i, j \in 1..n : i # j => ds[i] # ds[j]} : n \in 0..MaxDiags}

\* The inputs of the locator called on its own: any sequence of at most
\* MaxDiags of them and of a diagnostic of the fourth severity.
LocatorDiagnosticLists ==
    LET pool == DiagnosticPool \cup
                { [message |-> "TypeError: unsupported operand", severity |-> "Information",
                   range |-> [start |-> 1, end |-> 1]] }
    IN  UNION {[1..n -> pool] : n \in 0..MaxDiags}

\* Range.contains(position): the range is closed at both ends.
Contains(range, position) == range.start <= position /\ position <= range.end

\* Array.prototype.find from index i on: <<d>> for the first element the
\* predicate accepts, <<>> for undefined.
RECURSIVE FindContaining(_, _, _)
FindContaining(diags, position, i) ==
    IF i > Len(diags) THEN <<>>
    ELSE IF Contains(diags[i].range, position) THEN <<diags[i]>>
    ELSE FindContaining(diags, position, i + 1)

\* The mutant that looks at Error diagnostics only.
getDiagnosticAtPositionErrorsOnly(diags, position) ==
    FindContaining(SelectSeq(diags, LAMBDA d : d.severity = "Error"), position, 1)

getDiagnosticAtPosition(diags, position) == FindContaining(diags, position, 1)

---------------------------------------------------------------------------
(* What a handler does to the host: the calls it makes, in order *)

NoEditorNotice == "Error Oracle: No active editor."
NoErrorNotice ==
    "Error Oracle: No error found at the cursor. Move the cursor onto a red squiggly line."
SearchItem == "Search web for this error"

\* vscode.window.showInformationMessage(text)
ShowInformationMessage(text) ==
    [api |-> "showInformationMessage", text |-> text, modal |-> FALSE, items |-> <<>>]
\* vscode.window.showInformationMessage(text, { modal: true }, ...items)
ShowModalMessage(text, items) ==
    [api |-> "showInformationMessage", text |-> text, modal |-> TRUE, items |-> items]
\* vscode.env.openExternal(vscode.Uri.parse(url))
OpenExternal(url) ==
    [api |-> "openExternal", text |-> url, modal |-> FALSE, items |-> <<>>]

\* encodeURIComponent on ASCII text: letters, digits and - _ . ! ~ * ' ( ) stay,
\* every other character becomes % and its two hexadecimal digits.
AsciiFromSpace ==
    " !\"#$%&'()*+,-./0123456789:;<=>?@ABCDEFGHIJKLMNOPQRSTUVWXYZ[\\]^_"
AsciiFromLowerA == "abcdefghijklmnopqrstuvwxyz{|}~"
UriUnreserved ==
    "ABCDEFGHIJKLMNOPQRSTUVWXYZabcdefghijklmnopqrstuvwxyz0123456789-_.!~*'()"
HexDigits == "0123456789ABCDEF"
\* The character codes: tab, line feed, carriage return, 32..95 and 97..126.
CharCode ==
    [c \in {"\t", "\n", "\r"}
           \cup {Char(AsciiFromSpace, k) : k \in 0..(Len(AsciiFromSpace) - 1)}
           \cup {Char(AsciiFromLowerA, k) : k \in 0..(Len(AsciiFromLowerA) - 1)} |->
        IF c = "\t" THEN 9 ELSE IF c = "\n" THEN 10 ELSE IF c = "\r" THEN 13
        ELSE IF \E k \in 0..(Len(AsciiFromSpace) - 1) : Char(AsciiFromSpace, k) = c
             THEN 32 + CHOOSE k \in 0..(Len(AsciiFromSpace) - 1) : Char(AsciiFromSpace, k) = c
             ELSE 97 + CHOOSE k \in 0..(Len(AsciiFromLowerA) - 1) : Char(AsciiFromLowerA, k) = c]
PercentEncoded ==
    [c \in DOMAIN CharCode |->
        IF \E k \in 0..(Len(UriUnreserved) - 1) : Char(UriUnreserved, k) = c
        THEN c
        ELSE "%" \o Char(HexDigits, CharCode[c] \div 16) \o Char(HexDigits, CharCode[c] % 16)]
RECURSIVE EncodeFrom(_, _)
EncodeFrom(s, i) ==
    IF i >= Len(s) THEN "" ELSE PercentEncoded[Char(s, i)] \o EncodeFrom(s, i + 1)
encodeURIComponent(s) == EncodeFrom(s, 0)

\* The search URL of the dialog's action.
SearchUrl(languageId, errorMessage) ==
    "https://www.google.com/search?q=" \o encodeURIComponent(languageId \o " " \o errorMessage)

\* explanation.replace(/\n/g, '  \n'): every match of the pattern from index i
\* on is replaced and the text between the matches is copied; j is the index
\* of the next match, Len(s) when there is none.
NextNewline(s, i) ==
    Least({j \in i..(Len(s) - 1) : Char(s, j) = "\n"} \cup {Len(s)})
RECURSIVE ReplaceNewlinesFrom(_, _)
RECURSIVE ReplaceAt(_, _, _)
ReplaceNewlinesFrom(s, i) == ReplaceAt(s, i, NextNewline(s, i))
ReplaceAt(s, i, j) ==
    IF j = Len(s) THEN SubSeq(s, i + 1, Len(s))
    ELSE SubSeq(s, i + 1, j) \o "  \n" \o ReplaceNewlinesFrom(s, j + 1)
ReplaceNewlines(s) == ReplaceNewlinesFrom(s, 0)

---------------------------------------------------------------------------
(* The input space of the resolver *)

\* Pieces of diagnostic messages: the texts the patterns look for, the same in
\* another case, a line break ('.' does not cross it) and filler.
Fragments ==
    { "Not Defined", "TypeError: ", "x", "\n",
      "Cannot find name '", "'", "Property 'x' does not exist on type",
      "ReferenceError: ", " is not defined" }

RECURSIVE MessagesOfParts(_)
MessagesOfParts(n) ==
    IF n = 0 THEN {""}
    ELSE {a \o b : a \in MessagesOfParts(n - 1), b \in Fragments}

Messages == UNION {MessagesOfParts(n) : n \in 0..MaxParts}

\* Language identifiers: those of the rules, one differing only in case, and
\* one no rule names.
LanguageIds == {"python", "typescript", "javascript", "Python", "ruby"}

---------------------------------------------------------------------------
(* State *)

\* No handler invocation has completed yet.
NoInvocation ==
    [handler |-> "none", effects |-> <<>>, hover |-> <<>>,
     languageId |-> "", errorMessage |-> "", selection |-> <<>>]

\* The extension after activate(): nothing has run.
ExtensionIdle ==
    /\ lastIndex = InitialLastIndex
    /\ pending = <<>>
    /\ last = NoInvocation

HostIdle ==
    /\ docLanguageId = "python"
    /\ diagnostics = <<>>
    /\ queryPos = 0

---------------------------------------------------------------------------
(* The resolver called directly on one input *)

InitExplain ==
    /\ query \in [message : Messages, languageId : LanguageIds]
    /\ answer = <<>>
    /\ found = <<>>
    /\ ExtensionIdle
    /\ HostIdle

ExplainReturns(r) ==
    /\ answer' = <<r.text>>
    /\ lastIndex' = r.lastIndex
    /\ UNCHANGED <<query, docLanguageId, diagnostics, queryPos,
                   pending, last, found>>
CallExplainError == ExplainReturns(explainError(query.message, query.languageId, lastIndex))

NextExplain == CallExplainError

SpecExplain == InitExplain /\ [][NextExplain]_vars

---------------------------------------------------------------------------
(* The handlers *)

\* A handler invocation that completed without a dialog.
Completed(handler, effects, hover) ==
    [handler |-> handler, effects |-> effects, hover |-> hover,
     languageId |-> "", errorMessage |-> "", selection |-> <<>>]

\* The command handler up to the point where it returns or shows the modal
\* dialog: the calls it made, whether it waits for the dialog, the values its
\* continuation closes over, and every pattern's lastIndex afterwards.
ShowsNotice(text, li) ==
    [effects |-> <<ShowInformationMessage(text)>>, waits |-> FALSE,
     languageId |-> "", errorMessage |-> "", lastIndex |-> li]
\* r is what explainError(errorMessage, languageId) gave.
ShowsExplanation(errorMessage, languageId, r) ==
    [effects |-> <<ShowModalMessage(r.text, <<SearchItem>>)>>, waits |-> TRUE,
     languageId |-> languageId, errorMessage |-> errorMessage,
     lastIndex |-> r.lastIndex]
ExplainsDiagnostic(diagAtCursor, languageId, li) ==
    IF diagAtCursor = <<>>
    THEN ShowsNotice(NoErrorNotice, li)
    ELSE ShowsExplanation(diagAtCursor[1].message, languageId,
                          explainError(diagAtCursor[1].message, languageId, li))

\* The command handler with the mutant that acts on Error diagnostics only.
commandHandlerErrorsOnly(editor, languageId, diags, cursorPos, li) ==
    IF ~editor
    THEN ShowsNotice(NoEditorNotice, li)
    ELSE ExplainsDiagnostic(getDiagnosticAtPositionErrorsOnly(diags, cursorPos), languageId, li)

commandHandler(editor, languageId, diags, cursorPos, li) ==
    IF ~editor
    THEN ShowsNotice(NoEditorNotice, li)
    ELSE ExplainsDiagnostic(getDiagnosticAtPosition(diags, cursorPos), languageId, li)

\* The continuation with the mutant that opens the URL whatever was chosen.
thenCallbackAlwaysOpens(entry, selection) ==
    Append(entry.effects, OpenExternal(SearchUrl(entry.languageId, entry.errorMessage)))

\* The continuation with the mutant that reads the document's language again
\* instead of the value captured before the dialog.
thenCallbackReadsEditorAgain(entry, selection) ==
    IF selection = <<SearchItem>>
    THEN Append(entry.effects, OpenExternal(SearchUrl(docLanguageId, entry.errorMessage)))
    ELSE entry.effects

\* The continuation of the dialog, .then(selection => ...): the calls of the
\* invocation once it has run. selection is <<item>>, or <<>> for undefined.
thenCallback(entry, selection) ==
    IF selection = <<SearchItem>>
    THEN Append(entry.effects, OpenExternal(SearchUrl(entry.languageId, entry.errorMessage)))
    ELSE entry.effects

\* The languages the hover provider is registered for.
HoverLanguages == {"python", "typescript", "javascript"}

\* The hover built from what explainError gave: the heading, then the
\* explanation converted to markdown.
HoverOf(r) ==
    [hover |-> <<"**Error Oracle**\n\n" \o ReplaceNewlines(r.text)>>,
     lastIndex |-> r.lastIndex]
NoHover(li) == [hover |-> <<>>, lastIndex |-> li]

\* The hover provider with the mutant that looks for the first Error
\* diagnostic at the position instead of the first diagnostic.
HoverForFirstError(diag, languageId, li) ==
    IF diag = <<>> THEN NoHover(li)
    ELSE HoverOf(explainError(diag[1].message, languageId, li))
provideHoverFirstError(languageId, diags, position, li) ==
    HoverForFirstError(getDiagnosticAtPositionErrorsOnly(diags, position), languageId, li)

\* The hover provider with the mutant that leaves out the severity test.
provideHoverAnySeverity(languageId, diags, position, li) ==
    HoverForFirstError(getDiagnosticAtPosition(diags, position), languageId, li)

\* provideHover: <<markdown>> for a Hover, <<>> for undefined.
HoverFor(diag, languageId, li) ==
    IF diag = <<>> THEN NoHover(li)
    ELSE IF diag[1].severity # "Error" THEN NoHover(li)
    ELSE HoverOf(explainError(diag[1].message, languageId, li))
provideHover(languageId, diags, position, li) ==
    HoverFor(getDiagnosticAtPosition(diags, position), languageId, li)

---------------------------------------------------------------------------
(* The extension in the editor *)

\* The language identifiers a document of the model may have: one whose rules
\* match a message of the pool and one whose rules match none.
DocLanguageIds == {"python", "typescript"}

Init ==
    /\ ExtensionIdle
    /\ HostIdle
    /\ query = [message |-> "", languageId |-> ""]
    /\ answer = <<>>
    /\ found = <<>>

\* The document's language mode changes.
LanguageChanges ==
    \E l \in DocLanguageIds \ {docLanguageId} :
        /\ docLanguageId' = l
        /\ UNCHANGED <<lastIndex, query, answer, diagnostics, queryPos,
                       pending, last, found>>

\* The language tooling reports one more diagnostic for the document.
DiagnosticReported ==
    \E d \in DiagnosticPool :
        /\ Len(diagnostics) < MaxDiags
        /\ \A i \in 1..Len(diagnostics) : diagnostics[i] # d
        /\ diagnostics' = Append(diagnostics, d)
        /\ UNCHANGED <<lastIndex, query, answer, docLanguageId, queryPos,
                       pending, last, found>>

\* The language tooling clears the document's diagnostics.
DiagnosticsCleared ==
    /\ diagnostics # <<>>
    /\ diagnostics' = <<>>
    /\ UNCHANGED <<lastIndex, query, answer, docLanguageId, queryPos,
                   pending, last, found>>

\* The user runs 'error-oracle.explainError'. The handler reads the window's
\* active editor and its cursor once, when it starts: editor is whether there
\* is one, cursorPos where its cursor is.
CommandRuns(c) ==
    /\ c.waits => Len(pending) < MaxPending
    /\ lastIndex' = c.lastIndex
    /\ IF c.waits
       THEN /\ pending' = Append(pending, [languageId |-> c.languageId,
                                           errorMessage |-> c.errorMessage,
                                           effects |-> c.effects])
            /\ last' = last
       ELSE /\ pending' = pending
            /\ last' = Completed("command", c.effects, <<>>)
    /\ UNCHANGED <<query, answer, docLanguageId, diagnostics,
                   queryPos, found>>
ExplainErrorCommandAt(editor, cursorPos) ==
    CommandRuns(commandHandler(editor, docLanguageId, diagnostics, cursorPos, lastIndex))

ExplainErrorCommand ==
    \E editor \in BOOLEAN, cursorPos \in Positions : ExplainErrorCommandAt(editor, cursorPos)

\* The user answers the i-th waiting dialog: with its one action, or by
\* dismissing it (selection undefined). The continuation runs.
DialogResolvedWith(i, selection) ==
    /\ last' = [handler |-> "dialog",
                effects |-> thenCallback(pending[i], selection),
                hover |-> <<>>,
                languageId |-> pending[i].languageId,
                errorMessage |-> pending[i].errorMessage,
                selection |-> selection]
    /\ pending' = SubSeq(pending, 1, i - 1) \o SubSeq(pending, i + 1, Len(pending))
    /\ UNCHANGED <<lastIndex, query, answer, docLanguageId,
                   diagnostics, queryPos, found>>

DialogResolved ==
    \E i \in 1..Len(pending), selection \in {<<>>, <<SearchItem>>} :
        DialogResolvedWith(i, selection)

\* The host asks for a hover at a position of the document.
HoverRuns(h) ==
    /\ docLanguageId \in HoverLanguages
    /\ lastIndex' = h.lastIndex
    /\ last' = Completed("hover", <<>>, h.hover)
    /\ UNCHANGED <<query, answer, docLanguageId, diagnostics,
                   queryPos, pending, found>>
ProvideHoverAt(hoverPos) ==
    HoverRuns(provideHover(docLanguageId, diagnostics, hoverPos, lastIndex))

ProvideHover == \E hoverPos \in Positions : ProvideHoverAt(hoverPos)

Next ==
    \/ LanguageChanges
    \/ DiagnosticReported
    \/ DiagnosticsCleared
    \/ ExplainErrorCommand
    \/ DialogResolved
    \/ ProvideHover

Spec == Init /\ [][Next]_vars

---------------------------------------------------------------------------
(* The locator called directly on one input *)

InitLocator ==
    /\ diagnostics \in LocatorDiagnosticLists
    /\ queryPos \in Positions
    /\ found = <<>>
    /\ docLanguageId = "python"
    /\ query = [message |-> "", languageId |-> ""]
    /\ answer = <<>>
    /\ ExtensionIdle

CallGetDiagnosticAtPosition ==
    /\ found' = <<getDiagnosticAtPosition(diagnostics, queryPos)>>
    /\ UNCHANGED <<lastIndex, query, answer, docLanguageId, diagnostics,
                   queryPos, pending, last>>

NextLocator == CallGetDiagnosticAtPosition

SpecLocator == InitLocator /\ [][NextLocator]_vars

---------------------------------------------------------------------------
(* Claims about the resolver *)

\* Rule k applies to the query: its language is the queried one and its
\* pattern matches somewhere inside the message.
RuleApplies(k) ==
    /\ RULES[k].language = query.languageId
    /\ Matches(RULES[k].pattern, query.message)

\* The text t is the fallback for message m: the intro sentence and the
\* "Error text:" line first, then a line that starts with "> " and goes on with
\* m itself, then the fixed suggestions: nothing of m is dropped or rewritten.
IsFallbackFor(t, m) ==
    LET head == "Error Oracle doesn't have a specific explanation for this message yet.\n\nError text:\n"
        tips == "\n\nThings you can try:\n- Read the error carefully and note which variable/type it's about\n- Check the line above as well (errors often come from there)\n- Search the exact error message online or in your language docs"
        at   == Len(head)
    IN  /\ Len(t) = at + 2 + Len(m) + Len(tips)
        /\ SubSeq(t, 1, at) = head
        /\ SubSeq(t, at + 1, at + 2) = "> "
        /\ SubSeq(t, at + 3, at + 2 + Len(m)) = m
        /\ SubSeq(t, at + 3 + Len(m), Len(t)) = tips

\* C1: explainError returns the explanation of the first rule, in declaration
\* order, whose language equals the queried language and whose pattern matches
\* inside the message; a later rule that also matches is never the one returned.
C1_FirstMatchWins ==
    answer # <<>> =>
        LET applying == {k \in 1..Len(RULES) : RuleApplies(k)}
        IN  \A k \in applying :
                (\A j \in applying : k <= j) => answer[1] = RULES[k].explanation

\* Two python rules match the message and the first one's explanation came back.
C1_Witness ==
    /\ answer # <<>>
    /\ RuleApplies(1) /\ RuleApplies(2)
    /\ answer[1] = RULES[1].explanation
    /\ answer[1] # RULES[2].explanation

\* C2: when no rule has the queried language and a matching pattern, the
\* fallback is returned, and it holds the message verbatim after "> " at the
\* start of a line; the call always returns a text, also for the empty message.
C2_FallbackEchoesMessage ==
    answer # <<>> =>
        /\ Len(answer) = 1
        /\ (\A k \in 1..Len(RULES) : ~RuleApplies(k))
               => IsFallbackFor(answer[1], query.message)

\* No rule applied to the empty message and the fallback came back, with
\* nothing after the "> ".
C2_Witness ==
    /\ answer # <<>>
    /\ \A k \in 1..Len(RULES) : ~RuleApplies(k)
    /\ query.message = ""
    /\ IsFallbackFor(answer[1], "")

\* C3: what explainError returns is the fallback or the explanation of a rule
\* whose language is exactly the queried languageId; a rule of another
\* language, or of the same language in another case, is never applied.
C3_LanguageExact ==
    answer # <<>> =>
        \/ IsFallbackFor(answer[1], query.message)
        \/ \E k \in 1..Len(RULES) :
              /\ RULES[k].language = query.languageId
              /\ answer[1] = RULES[k].explanation

\* "Python" was queried with a message the python rule matches: the fallback.
C3_Witness ==
    /\ answer # <<>>
    /\ query.languageId = "Python"
    /\ Matches(RULES[1].pattern, query.message)
    /\ Matches(RULES[5].pattern, query.message)
    /\ IsFallbackFor(answer[1], query.message)

---------------------------------------------------------------------------
(* Claims about the locator *)

\* The indices of the diagnostics of ds whose range contains position pos.
ContainingAt(ds, pos) == {i \in 1..Len(ds) : Contains(ds[i].range, pos)}

\* C7: getDiagnosticAtPosition returns the first diagnostic of the sequence
\* whose range contains the position, whatever its severity, and undefined when
\* the sequence is empty or no range contains the position.
C7_LocatorFirstContaining ==
    found # <<>> =>
        LET at == ContainingAt(diagnostics, queryPos)
        IN  IF at = {} THEN found[1] = <<>>
            ELSE found[1] = <<diagnostics[Least(at)]>>

\* A Warning was returned although an Error diagnostic later in the sequence
\* contains the position too.
C7_Witness ==
    /\ found # <<>>
    /\ found[1] # <<>>
    /\ found[1][1].severity = "Warning"
    /\ \E i \in ContainingAt(diagnostics, queryPos) : diagnostics[i].severity = "Error"

---------------------------------------------------------------------------
(* Claims about the command and the hover *)

\* Percent-decoding: every %XY becomes the character with that code.
HexValue(c) == CHOOSE v \in 0..15 : Char(HexDigits, v) = c
CharOfCode(n) == CHOOSE c \in DOMAIN CharCode : CharCode[c] = n
RECURSIVE PercentDecodeFrom(_, _)
PercentDecodeFrom(s, i) ==
    IF i >= Len(s) THEN ""
    ELSE IF Char(s, i) = "%"
         THEN CharOfCode(16 * HexValue(Char(s, i + 1)) + HexValue(Char(s, i + 2)))
                  \o PercentDecodeFrom(s, i + 3)
         ELSE Char(s, i) \o PercentDecodeFrom(s, i + 1)

\* The explanation as markdown: each line feed becomes a markdown line break
\* (two spaces and the line feed), every other character stays as it is.
RECURSIVE MarkdownLineBreaks(_)
MarkdownLineBreaks(e) ==
    IF Len(e) = 0 THEN ""
    ELSE IF Len(e) = 1 THEN (IF e = "\n" THEN "  \n" ELSE e)
    ELSE MarkdownLineBreaks(SubSeq(e, 1, Len(e) \div 2))
             \o MarkdownLineBreaks(SubSeq(e, Len(e) \div 2 + 1, Len(e)))

\* What explainError returns for the message and the language.
Explanation(message, languageId) == explainError(message, languageId, lastIndex).text

IsModalFor(effect, text) ==
    effect = [api |-> "showInformationMessage", text |-> text, modal |-> TRUE,
              items |-> <<"Search web for this error">>]
IsNotice(effect, text) ==
    effect = [api |-> "showInformationMessage", text |-> text, modal |-> FALSE,
              items |-> <<>>]
UrlsOpened(effects) == SelectSeq(effects, LAMBDA e : e.api = "openExternal")
ModalsShown(effects) == SelectSeq(effects, LAMBDA e : e.modal)

\* What every step of the command handler, and no step of the host, does: the
\* editor's state stays, and a dialog is added, the completed invocation is a
\* command's, or a lastIndex moved.
CommandStep ==
    /\ UNCHANGED <<docLanguageId, diagnostics>>
    /\ \/ Len(pending') > Len(pending)
       \/ last' # last /\ last'.handler = "command"
       \/ lastIndex' # lastIndex

\* The same for the hover provider.
HoverStep ==
    /\ UNCHANGED <<docLanguageId, diagnostics, pending>>
    /\ \/ last' # last /\ last'.handler = "hover"
       \/ lastIndex' # lastIndex

\* And for the continuation of a dialog.
DialogStep ==
    /\ UNCHANGED <<docLanguageId, diagnostics>>
    /\ Len(pending') < Len(pending)

\* C4: an invocation of the command has one of three outcomes: without an
\* active editor only the 'No active editor' notice; with an editor and no
\* diagnostic containing the cursor only the 'No error found' notice; otherwise
\* the modal dialog with the explanation of the first diagnostic at the cursor
\* and the search action, whatever the severity. The first two show no dialog
\* and open no URL.
C4_CommandOutcomes ==
    [][\A editor \in BOOLEAN, cursorPos \in Positions :
          (CommandStep /\ ExplainErrorCommandAt(editor, cursorPos)) =>
              LET at == ContainingAt(diagnostics, cursorPos)
              IN  \/ /\ ~editor
                     /\ pending' = pending
                     /\ last'.handler = "command"
                     /\ Len(last'.effects) = 1
                     /\ IsNotice(last'.effects[1], "Error Oracle: No active editor.")
                  \/ /\ editor /\ at = {}
                     /\ pending' = pending
                     /\ last'.handler = "command"
                     /\ Len(last'.effects) = 1
                     /\ IsNotice(last'.effects[1],
                                 "Error Oracle: No error found at the cursor. Move the cursor onto a red squiggly line.")
                  \/ /\ editor /\ at # {}
                     /\ last' = last
                     /\ Len(pending') = Len(pending) + 1
                     /\ SubSeq(pending', 1, Len(pending)) = pending
                     /\ Len(pending'[Len(pending')].effects) = 1
                     /\ IsModalFor(pending'[Len(pending')].effects[1],
                                   Explanation(diagnostics[Least(at)].message, docLanguageId))
      ]_vars

\* The dialog is up for a diagnostic that is not an Error (only the Warning
\* and the Hint of the pool carry this message).
C4_Witness ==
    /\ pending # <<>>
    /\ pending[1].errorMessage = "SyntaxError: invalid syntax"
    /\ ModalsShown(pending[1].effects) # <<>>

\* C5: the hover provider returns no hover, and shows nothing, exactly when no
\* diagnostic contains the hovered position or the first one that does is not
\* an Error; otherwise the hover is the 'Error Oracle' heading followed by the
\* explanation with every line break turned into a markdown line break.
C5_HoverOutcomes ==
    [][\A hoverPos \in Positions :
          (HoverStep /\ ProvideHoverAt(hoverPos)) =>
              LET at == ContainingAt(diagnostics, hoverPos)
              IN  /\ last'.handler = "hover"
                  /\ last'.effects = <<>>
                  /\ pending' = pending
                  /\ IF at = {} \/ diagnostics[Least(at)].severity # "Error"
                     THEN last'.hover = <<>>
                     ELSE last'.hover =
                            <<"**Error Oracle**\n\n" \o
                              MarkdownLineBreaks(
                                  Explanation(diagnostics[Least(at)].message, docLanguageId))>>
      ]_vars

\* A hover came back whose text is the fallback, line breaks converted.
C5_Witness ==
    /\ last.handler = "hover"
    /\ last.hover # <<>>
    /\ docLanguageId = "typescript"
    /\ last.hover[1] =
          "**Error Oracle**\n\n" \o
          MarkdownLineBreaks(Fallback("NameError: name 'x' is not defined"))

\* C6: within an invocation a URL is opened only after the modal dialog was
\* shown and the user chose 'Search web for this error'; a dismissed dialog
\* opens nothing; at most one URL is opened; and when the continuation has run
\* the invocation is over: it waits for nothing more.
C6_UrlOnlyAfterChoice ==
    /\ [](/\ \A i \in 1..Len(pending) :
               /\ Len(pending[i].effects) = 1
               /\ pending[i].effects[1].modal
               /\ UrlsOpened(pending[i].effects) = <<>>
          /\ last.handler \in {"none", "command", "hover"} => UrlsOpened(last.effects) = <<>>
          /\ last.handler = "dialog" =>
               /\ last.effects[1].modal
               /\ last.effects[1].items = <<"Search web for this error">>
               /\ Len(UrlsOpened(last.effects)) <= 1
               /\ (UrlsOpened(last.effects) # <<>>) <=> (last.selection = <<"Search web for this error">>)
               /\ last.effects = <<last.effects[1]>> \o UrlsOpened(last.effects))
    /\ [][\A i \in 1..Len(pending), selection \in {<<>>, <<SearchItem>>} :
             (DialogStep /\ DialogResolvedWith(i, selection)) =>
                 /\ Len(pending') = Len(pending) - 1
                 /\ \A j \in 1..Len(pending') : pending'[j] = pending[IF j < i THEN j ELSE j + 1]
         ]_vars

\* A dialog was answered with the search action and one URL was opened after it.
C6_Witness ==
    /\ last.handler = "dialog"
    /\ last.selection = <<SearchItem>>
    /\ Len(last.effects) = 2
    /\ last.effects[1].modal
    /\ last.effects[2].api = "openExternal"

\* The messages of the pool, and what the first call of a session returns for
\* each message and language.
PoolMessages == {d.message : d \in DiagnosticPool}
FirstAnswer ==
    [q \in PoolMessages \X DocLanguageIds |->
        explainError(q[1], q[2], InitialLastIndex).text]

\* C8: explainError is history-independent: after any sequence of command and
\* hover invocations a call returns, for every message and language, what the
\* first call of the session would have returned, and no pattern's lastIndex
\* has moved.
C8_ResolverHistoryIndependent ==
    /\ lastIndex = InitialLastIndex
    /\ \A m \in PoolMessages, l \in DocLanguageIds :
          explainError(m, l, lastIndex).text = FirstAnswer[<<m, l>>]

\* The command and the hover provider have both called explainError, the
\* command with a message the first python rule matches.
C8_Witness ==
    /\ last.handler = "hover"
    /\ last.hover # <<>>
    /\ pending # <<>>
    /\ pending[1].languageId = "python"
    /\ pending[1].effects[1].text = RULES[1].explanation

\* C9: the URL an invocation opens is built from the languageId and the message
\* that invocation captured when it located its diagnostic, the message whose
\* explanation its dialog showed, whatever the host and other invocations did
\* while the dialog waited; no step changes what a waiting invocation captured.
C9_InvocationValuesLocal ==
    /\ [](last.handler = "dialog" =>
             /\ last.effects[1].text
                    = explainError(last.errorMessage, last.languageId, InitialLastIndex).text
             /\ \A k \in 1..Len(last.effects) :
                    last.effects[k].api = "openExternal" =>
                        /\ SubSeq(last.effects[k].text, 1, 32) = "https://www.google.com/search?q="
                        /\ PercentDecodeFrom(last.effects[k].text, 32)
                               = last.languageId \o " " \o last.errorMessage)
    /\ [][/\ \A editor \in BOOLEAN, cursorPos \in Positions :
                (CommandStep /\ pending' # pending /\ ExplainErrorCommandAt(editor, cursorPos)) =>
                    /\ SubSeq(pending', 1, Len(pending)) = pending
                    /\ pending'[Len(pending')].languageId = docLanguageId
                    /\ pending'[Len(pending')].errorMessage
                           = diagnostics[Least(ContainingAt(diagnostics, cursorPos))].message
          /\ \A i \in 1..Len(pending), selection \in {<<>>, <<SearchItem>>} :
                (DialogStep /\ DialogResolvedWith(i, selection)) =>
                    /\ last'.languageId = pending[i].languageId
                    /\ last'.errorMessage = pending[i].errorMessage
                    /\ last'.effects[1] = pending[i].effects[1]
                    /\ \A j \in 1..Len(pending') : pending'[j] = pending[IF j < i THEN j ELSE j + 1]
          /\ (\/ docLanguageId' # docLanguageId
              \/ diagnostics' # diagnostics
              \/ HoverStep /\ ProvideHover) => pending' = pending
         ]_vars

\* A URL was opened for a language and a message the editor no longer shows,
\* while another invocation's dialog is still waiting.
C9_Witness ==
    /\ last.handler = "dialog"
    /\ UrlsOpened(last.effects) # <<>>
    /\ last.languageId # docLanguageId
    /\ diagnostics = <<>>
    /\ pending # <<>>
    /\ pending[1].errorMessage # last.errorMessage

\* The command's outcome c is the dialog for the message, and the hover text
\* is the heading and the dialog's text as markdown.
SameDiagnosticExplained(c, message, hoverText) ==
    /\ c.waits
    /\ c.errorMessage = message
    /\ hoverText = "**Error Oracle**\n\n" \o MarkdownLineBreaks(c.effects[1].text)

\* C10: the hover provider looks at the first diagnostic containing the
\* position only: when that one is not an Error the hover is empty even if a
\* later Error diagnostic contains the position; a hover that is produced
\* explains the first containing diagnostic, which is an Error, and the command
\* run at the same position of the same document explains the same diagnostic.
C10_HoverFirstContainingOnly ==
    [][\A hoverPos \in Positions :
          (HoverStep /\ ProvideHoverAt(hoverPos)) =>
              LET at == ContainingAt(diagnostics, hoverPos)
              IN  /\ (at # {} /\ diagnostics[Least(at)].severity # "Error") => last'.hover = <<>>
                  /\ last'.hover # <<>> =>
                        /\ at # {}
                        /\ diagnostics[Least(at)].severity = "Error"
                        /\ SameDiagnosticExplained(
                               commandHandler(TRUE, docLanguageId, diagnostics, hoverPos, lastIndex),
                               diagnostics[Least(at)].message, last'.hover[1])
      ]_vars

\* The hover came back empty with a Warning first and an Error second in the
\* document's diagnostics, both containing position 1.
C10_Witness ==
    /\ last.handler = "hover"
    /\ last.hover = <<>>
    /\ Len(diagnostics) = 2
    /\ diagnostics[1].severity = "Warning" /\ Contains(diagnostics[1].range, 1)
    /\ diagnostics[2].severity = "Error" /\ Contains(diagnostics[2].range, 1)

===========================================================================
